---- MODULE Spec2Model ----
(***************************************************************************)
(* EyeLove content script (src/src/content-scripts/main.ts): the dark-mode *)
(* engine as a state machine over a small document.                        *)
(*                                                                         *)
(* Units.  OKLCH lightness and chroma are integers in thousandths          *)
(* (0.35 is 350), relative luminance is in ten-thousandths, alpha is in    *)
(* hundredths, a contrast ratio is in thousandths (4.5 is 4500).           *)
(* A CSS colour value is a record [g, a, c, h]: g is the 8-bit sRGB level  *)
(* of the grey that has the colour's lightness, a the alpha, c the OKLCH   *)
(* chroma and h the hue.  The documents' own colours are greys (c = 0, no  *)
(* hue); colours with chroma are inputs of the decisions and of the root   *)
(* variables.  g = -1 stands for a value culori.parse does not understand  *)
(* ("none", a gradient, a paint server), g = -2 for the empty string.  An  *)
(* inline override is the 8-bit level written, -1 when unset.              *)
(***************************************************************************)
EXTENDS Integers, Sequences, FiniteSets, TLC

VARIABLES
  page,               \* per element: tag, computed colours of the page's own CSS, size, text
  linked,             \* per node: is it attached to its parent
  style,              \* per element: the inline style attribute (page text + engine overrides)
  marked,             \* per element: carries data-eyelove-styled
  elementOriginalStyles, \* the WeakMap of snapshots
  records,            \* per element: the record of the last write phase that reached it
  bodyClass,          \* body carries BODY_CLASS_DARK_ENABLED
  adoptedStyleSheets, \* document.adoptedStyleSheets
  sheetRules,         \* content of dynamicStyleSheet (the generated declarations)
  dynamicStyleSheet,  \* TRUE when new CSSStyleSheet() succeeded at load
  domObserver,        \* the observer handle is non-null
  observers,          \* number of MutationObservers observing document.body
  pending,            \* added nodes of the mutation records queued for the callback
  cache,              \* localStorage['eyelove-enabled-cache']
  rootVars,           \* resolved values of the catalog variables on the root
  last                \* the last operation and the element list it worked on

vars == <<page, linked, style, marked, elementOriginalStyles, records, bodyClass,
          adoptedStyleSheets, sheetRules, dynamicStyleSheet, domObserver,
          observers, pending, cache, rootVars, last>>

(***************************************************************************)
(* Bounds of the model.                                                    *)
(***************************************************************************)
MaxPending == 2

(***************************************************************************)
(* Program constants.                                                      *)
(***************************************************************************)
TARGET_CONTRAST == 4500
MAX_CONTRAST_ITERATIONS == 10
SmallThreshold == 24

(***************************************************************************)
(* culori: conversions between 8-bit sRGB greys and OKLCH.                 *)
(* LuminanceTable[l + 1] is 0.2126 r + 0.7152 g + 0.0722 b of              *)
(* culori.rgb({mode: 'oklch', l: l/1000, c: 0}), in ten-thousandths.       *)
(* LightnessTable[g + 1] is culori.oklch('rgb(g, g, g)').l in thousandths. *)
(***************************************************************************)
LuminanceTable ==
  <<
   0, 0, 0, 0, 0, 0, 0, 0, 0, 0, 0, 0, 0, 0, 0, 0,
   1, 1, 1, 1, 1, 1, 1, 2, 2, 2, 2, 3, 3, 3, 3, 4,
   4, 5, 5, 6, 6, 7, 7, 8, 8, 9, 10, 10, 11, 12, 13, 13,
   14, 15, 16, 17, 18, 19, 20, 21, 23, 24, 25, 27, 28, 29, 31, 32,
   34, 35, 37, 39, 41, 42, 44, 46, 48, 50, 52, 55, 57, 59, 61, 64,
   66, 69, 71, 74, 77, 79, 82, 85, 88, 91, 94, 97, 101, 104, 107, 111,
   114, 118, 122, 125, 129, 133, 137, 141, 145, 150, 154, 158, 163, 167, 172, 177,
   182, 186, 191, 196, 202, 207, 212, 218, 223, 229, 235, 240, 246, 252, 258, 265,
   271, 277, 284, 290, 297, 304, 311, 318, 325, 332, 340, 347, 355, 362, 370, 378,
   386, 394, 402, 410, 418, 427, 435, 443, 451, 460, 468, 476, 484, 493, 501, 509,
   518, 526, 534, 543, 551, 559, 568, 576, 585, 593, 602, 610, 619, 627, 636, 644,
   653, 661, 670, 678, 687, 696, 704, 713, 721, 730, 739, 747, 756, 765, 773, 782,
   791, 800, 808, 817, 826, 835, 843, 852, 861, 870, 879, 888, 896, 905, 914, 923,
   932, 941, 950, 959, 968, 977, 986, 995, 1004, 1013, 1022, 1031, 1040, 1049, 1058, 1067,
   1076, 1085, 1094, 1103, 1112, 1121, 1130, 1140, 1149, 1158, 1167, 1176, 1185, 1195, 1204, 1213,
   1222, 1231, 1241, 1250, 1259, 1268, 1278, 1287, 1296, 1306, 1315, 1324, 1334, 1343, 1352, 1362,
   1371, 1380, 1390, 1399, 1409, 1418, 1428, 1437, 1446, 1456, 1465, 1475, 1484, 1494, 1503, 1513,
   1522, 1532, 1541, 1551, 1561, 1570, 1580, 1589, 1599, 1608, 1618, 1628, 1637, 1647, 1657, 1666,
   1676, 1686, 1695, 1705, 1715, 1724, 1734, 1744, 1753, 1763, 1773, 1783, 1792, 1802, 1812, 1822,
   1831, 1841, 1851, 1861, 1871, 1881, 1890, 1900, 1910, 1920, 1930, 1940, 1950, 1959, 1969, 1979,
   1989, 1999, 2009, 2019, 2029, 2039, 2049, 2059, 2069, 2079, 2089, 2099, 2109, 2119, 2129, 2139,
   2149, 2159, 2169, 2179, 2189, 2199, 2209, 2219, 2229, 2239, 2250, 2260, 2270, 2280, 2290, 2300,
   2310, 2321, 2331, 2341, 2351, 2361, 2372, 2382, 2392, 2402, 2412, 2423, 2433, 2443, 2453, 2464,
   2474, 2484, 2494, 2505, 2515, 2525, 2536, 2546, 2556, 2567, 2577, 2587, 2598, 2608, 2618, 2629,
   2639, 2649, 2660, 2670, 2681, 2691, 2701, 2712, 2722, 2733, 2743, 2754, 2764, 2775, 2785, 2796,
   2806, 2817, 2827, 2838, 2848, 2859, 2869, 2880, 2890, 2901, 2911, 2922, 2932, 2943, 2954, 2964,
   2975, 2985, 2996, 3006, 3017, 3028, 3038, 3049, 3060, 3070, 3081, 3092, 3102, 3113, 3124, 3134,
   3145, 3156, 3166, 3177, 3188, 3198, 3209, 3220, 3231, 3241, 3252, 3263, 3274, 3284, 3295, 3306,
   3317, 3328, 3338, 3349, 3360, 3371, 3382, 3392, 3403, 3414, 3425, 3436, 3447, 3458, 3468, 3479,
   3490, 3501, 3512, 3523, 3534, 3545, 3556, 3567, 3577, 3588, 3599, 3610, 3621, 3632, 3643, 3654,
   3665, 3676, 3687, 3698, 3709, 3720, 3731, 3742, 3753, 3764, 3775, 3786, 3797, 3808, 3819, 3830,
   3841, 3852, 3864, 3875, 3886, 3897, 3908, 3919, 3930, 3941, 3952, 3963, 3975, 3986, 3997, 4008,
   4019, 4030, 4042, 4053, 4064, 4075, 4086, 4097, 4109, 4120, 4131, 4142, 4153, 4165, 4176, 4187,
   4198, 4210, 4221, 4232, 4243, 4255, 4266, 4277, 4288, 4300, 4311, 4322, 4334, 4345, 4356, 4368,
   4379, 4390, 4402, 4413, 4424, 4436, 4447, 4458, 4470, 4481, 4492, 4504, 4515, 4527, 4538, 4549,
   4561, 4572, 4584, 4595, 4606, 4618, 4629, 4641, 4652, 4664, 4675, 4687, 4698, 4710, 4721, 4732,
   4744, 4755, 4767, 4778, 4790, 4801, 4813, 4825, 4836, 4848, 4859, 4871, 4882, 4894, 4905, 4917,
   4928, 4940, 4952, 4963, 4975, 4986, 4998, 5010, 5021, 5033, 5044, 5056, 5068, 5079, 5091, 5102,
   5114, 5126, 5137, 5149, 5161, 5172, 5184, 5196, 5207, 5219, 5231, 5242, 5254, 5266, 5278, 5289,
   5301, 5313, 5324, 5336, 5348, 5360, 5371, 5383, 5395, 5407, 5418, 5430, 5442, 5454, 5466, 5477,
   5489, 5501, 5513, 5525, 5536, 5548, 5560, 5572, 5584, 5596, 5607, 5619, 5631, 5643, 5655, 5667,
   5678, 5690, 5702, 5714, 5726, 5738, 5750, 5762, 5774, 5785, 5797, 5809, 5821, 5833, 5845, 5857,
   5869, 5881, 5893, 5905, 5917, 5929, 5941, 5953, 5965, 5977, 5989, 6001, 6013, 6025, 6037, 6049,
   6061, 6073, 6085, 6097, 6109, 6121, 6133, 6145, 6157, 6169, 6181, 6193, 6205, 6217, 6229, 6241,
   6253, 6265, 6277, 6290, 6302, 6314, 6326, 6338, 6350, 6362, 6374, 6386, 6399, 6411, 6423, 6435,
   6447, 6459, 6471, 6484, 6496, 6508, 6520, 6532, 6544, 6557, 6569, 6581, 6593, 6605, 6618, 6630,
   6642, 6654, 6666, 6679, 6691, 6703, 6715, 6728, 6740, 6752, 6764, 6777, 6789, 6801, 6813, 6826,
   6838, 6850, 6863, 6875, 6887, 6899, 6912, 6924, 6936, 6949, 6961, 6973, 6986, 6998, 7010, 7023,
   7035, 7047, 7060, 7072, 7084, 7097, 7109, 7121, 7134, 7146, 7159, 7171, 7183, 7196, 7208, 7221,
   7233, 7245, 7258, 7270, 7283, 7295, 7308, 7320, 7332, 7345, 7357, 7370, 7382, 7395, 7407, 7420,
   7432, 7445, 7457, 7469, 7482, 7494, 7507, 7519, 7532, 7544, 7557, 7569, 7582, 7595, 7607, 7620,
   7632, 7645, 7657, 7670, 7682, 7695, 7707, 7720, 7733, 7745, 7758, 7770, 7783, 7795, 7808, 7821,
   7833, 7846, 7858, 7871, 7884, 7896, 7909, 7921, 7934, 7947, 7959, 7972, 7985, 7997, 8010, 8022,
   8035, 8048, 8060, 8073, 8086, 8098, 8111, 8124, 8136, 8149, 8162, 8175, 8187, 8200, 8213, 8225,
   8238, 8251, 8264, 8276, 8289, 8302, 8314, 8327, 8340, 8353, 8365, 8378, 8391, 8404, 8416, 8429,
   8442, 8455, 8468, 8480, 8493, 8506, 8519, 8531, 8544, 8557, 8570, 8583, 8596, 8608, 8621, 8634,
   8647, 8660, 8672, 8685, 8698, 8711, 8724, 8737, 8750, 8762, 8775, 8788, 8801, 8814, 8827, 8840,
   8853, 8865, 8878, 8891, 8904, 8917, 8930, 8943, 8956, 8969, 8982, 8995, 9007, 9020, 9033, 9046,
   9059, 9072, 9085, 9098, 9111, 9124, 9137, 9150, 9163, 9176, 9189, 9202, 9215, 9228, 9241, 9254,
   9267, 9280, 9293, 9306, 9319, 9332, 9345, 9358, 9371, 9384, 9397, 9410, 9423, 9436, 9449, 9462,
   9475, 9488, 9501, 9514, 9527, 9540, 9554, 9567, 9580, 9593, 9606, 9619, 9632, 9645, 9658, 9671,
   9684, 9698, 9711, 9724, 9737, 9750, 9763, 9776, 9789, 9803, 9816, 9829, 9842, 9855, 9868, 9881,
   9895, 9908, 9921, 9934, 9947, 9960, 9974, 9987, 10000
  >>

LightnessTable ==
  <<
   0, 67, 85, 97, 107, 115, 122, 129, 134, 140, 145, 150, 154, 159, 164, 168,
   173, 178, 182, 187, 191, 196, 200, 205, 209, 213, 218, 222, 226, 231, 235, 239,
   244, 248, 252, 256, 260, 264, 269, 273, 277, 281, 285, 289, 293, 297, 301, 305,
   309, 313, 317, 321, 325, 329, 333, 337, 341, 345, 348, 352, 356, 360, 364, 368,
   371, 375, 379, 383, 387, 390, 394, 398, 402, 405, 409, 413, 417, 420, 424, 428,
   431, 435, 439, 442, 446, 450, 453, 457, 460, 464, 468, 471, 475, 478, 482, 485,
   489, 493, 496, 500, 503, 507, 510, 514, 517, 521, 524, 528, 531, 535, 538, 542,
   545, 549, 552, 556, 559, 562, 566, 569, 573, 576, 580, 583, 586, 590, 593, 596,
   600, 603, 607, 610, 613, 617, 620, 623, 627, 630, 633, 637, 640, 643, 647, 650,
   653, 657, 660, 663, 667, 670, 673, 676, 680, 683, 686, 689, 693, 696, 699, 703,
   706, 709, 712, 715, 719, 722, 725, 728, 732, 735, 738, 741, 744, 748, 751, 754,
   757, 760, 764, 767, 770, 773, 776, 779, 783, 786, 789, 792, 795, 798, 802, 805,
   808, 811, 814, 817, 820, 823, 827, 830, 833, 836, 839, 842, 845, 848, 851, 855,
   858, 861, 864, 867, 870, 873, 876, 879, 882, 885, 888, 891, 894, 898, 901, 904,
   907, 910, 913, 916, 919, 922, 925, 928, 931, 934, 937, 940, 943, 946, 949, 952,
   955, 958, 961, 964, 967, 970, 973, 976, 979, 982, 985, 988, 991, 994, 997, 1000
  >>

Max(a, b) == IF a >= b THEN a ELSE b
Min(a, b) == IF a <= b THEN a ELSE b

\* The hue culori leaves undefined (an achromatic colour).
NoHue == -1
\* h || 0
HueOrZero(h) == IF h = NoHue THEN 0 ELSE h

\* A colour value culori.parse rejects (returns undefined for).
CssNone == [g |-> -1, a |-> 0, c |-> 0, h |-> NoHue]
\* The empty string getPropertyValue(...).trim() gives for a variable that
\* is not set.
CssEmpty == [g |-> -2, a |-> 0, c |-> 0, h |-> NoHue]
Grey(level, alpha) == [g |-> level, a |-> alpha, c |-> 0, h |-> NoHue]
\* A colour with the lightness of the grey of that level, and a chroma
\* (thousandths) and hue (degrees) of its own.
Tint(level, alpha, chroma, hue) == [g |-> level, a |-> alpha, c |-> chroma, h |-> hue]
NoOverride == -1

\* culori.parse: undefined (FALSE here) unless the text is a colour.
Parses(value) == value.g >= 0

\* culori.oklch(culori.parse(value)); culori leaves h undefined when the
\* chroma is 0 and the code then uses h || 0.
ToOklch(value) == [l |-> LightnessTable[value.g + 1], c |-> value.c, h |-> value.h]

\* getRelativeLuminance: culori.rgb(color) weighted by 0.2126/0.7152/0.0722.
\* The table is that of the greys, the colours of the documents here; a
\* colour with chroma is given the luminance of the grey of its lightness.
getRelativeLuminance(oklchColor) == LuminanceTable[oklchColor.l + 1]

\* culori.formatHex: each channel is Math.round(255 * clamp(channel)); the
\* result is an opaque colour.
formatHex(oklchColor) ==
  (255 * getRelativeLuminance(oklchColor) + 5000) \div 10000

\* A ratio of the first luminance to the second, in the order given.
calculateContrastRatioOrdered(luminance1, luminance2) ==
  ((luminance1 + 500) * 1000) \div (luminance2 + 500)

\* calculateContrastRatio, in thousandths (rounded down).
calculateContrastRatio(luminance1, luminance2) ==
  LET lighterLuminance == Max(luminance1, luminance2)
      darkerLuminance == Min(luminance1, luminance2)
  IN  ((lighterLuminance + 500) * 1000) \div (darkerLuminance + 500)

\* The while loop of adjustTextLightnessForContrast.  The state of the loop
\* is the lightness, the text luminance, the contrast, the iteration count
\* and the step; tried lists, for inspection, the lightness of every colour
\* the loop has evaluated and the contrast it computed for it.
RECURSIVE AdjustLoop(_, _, _, _, _, _, _, _)
AdjustLoop(l, textLuminance, currentContrast, iterations, step, backgroundLuminance, targetContrast, tried) ==
  IF currentContrast < targetContrast /\ iterations < MAX_CONTRAST_ITERATIONS
  THEN LET isDarkBackground == backgroundLuminance < 5000
           l2 == IF isDarkBackground THEN Min(1000, l + step)
                                     ELSE Max(0, l - step)
           got == getRelativeLuminance([l |-> l2, c |-> 0])
           \* getRelativeLuminance(adjustedColor) || textLuminance
           lum2 == IF got # 0 THEN got ELSE textLuminance
           contrast2 == calculateContrastRatio(backgroundLuminance, lum2)
           step2 == IF iterations > 5 THEN 25 ELSE step
       IN  AdjustLoop(l2, lum2, contrast2, iterations + 1, step2,
                      backgroundLuminance, targetContrast,
                      Append(tried, [l |-> l2, contrast |-> contrast2]))
  ELSE [l |-> l, iterations |-> iterations, contrast |-> currentContrast,
        tried |-> tried]

\* A run that adjusts once before it looks at the contrast.
AdjustRunStepFirst(textColorOklch, backgroundLuminance, targetContrast) ==
  LET l2 == IF backgroundLuminance < 5000 THEN Min(1000, textColorOklch.l + 50)
                                          ELSE Max(0, textColorOklch.l - 50)
      textLuminance == getRelativeLuminance([l |-> l2, c |-> 0])
      currentContrast == calculateContrastRatio(backgroundLuminance, textLuminance)
  IN  AdjustLoop(l2, textLuminance, currentContrast, 1, 50,
                 backgroundLuminance, targetContrast,
                 <<[l |-> textColorOklch.l,
                    contrast |-> calculateContrastRatio(backgroundLuminance,
                                   getRelativeLuminance(textColorOklch))],
                   [l |-> l2, contrast |-> currentContrast]>>)

\* One run of the function up to the return statement: the initial
\* luminance and contrast, then the loop.
AdjustRun(textColorOklch, backgroundLuminance, targetContrast) ==
  LET textLuminance == getRelativeLuminance(textColorOklch)
      currentContrast == calculateContrastRatio(backgroundLuminance, textLuminance)
  IN  AdjustLoop(textColorOklch.l, textLuminance, currentContrast, 0, 50,
                 backgroundLuminance, targetContrast,
                 <<[l |-> textColorOklch.l, contrast |-> currentContrast]>>)

\* An enforcer that returns a grey of the adjusted lightness.
adjustTextLightnessForContrastGrey(textColorOklch, backgroundLuminance, targetContrast) ==
  [l |-> AdjustRun(textColorOklch, backgroundLuminance, targetContrast).l,
   c |-> 0,
   h |-> 0]

\* The returned colour: the adjusted lightness with the candidate's chroma
\* and hue.
adjustTextLightnessForContrast(textColorOklch, backgroundLuminance, targetContrast) ==
  [l |-> AdjustRun(textColorOklch, backgroundLuminance, targetContrast).l,
   c |-> textColorOklch.c,
   h |-> textColorOklch.h]

(***************************************************************************)
(* Strategy 2, the decisions of the write phase for one element.           *)
(***************************************************************************)

\* A colour variable of the write phase that is still null.
NoColor == [l |-> -1, c |-> 0, h |-> 0]

\* A background decision that gives every light background the lightness
\* of the button branch instead of inverting it.
BackgroundDecisionFlat(isButton, originalBg) ==
  IF Parses(originalBg) /\ originalBg.a > 50 /\ ToOklch(originalBg).l > 300
  THEN [newBg |-> [l |-> 350, c |-> 0, h |-> 0],
        finalBackgroundL |-> 350,
        backgroundLuminance |-> getRelativeLuminance([l |-> 350, c |-> 0])]
  ELSE [newBg |-> NoColor,
        finalBackgroundL |-> 200,
        backgroundLuminance |-> getRelativeLuminance([l |-> 200, c |-> 0])]

\* A background decision that inverts buttons as it inverts other elements.
BackgroundDecisionInvertsButtons(isButton, originalBg) ==
  IF Parses(originalBg) /\ originalBg.a > 50
  THEN LET oklchBg == ToOklch(originalBg) IN
       IF oklchBg.l > 300
       THEN LET darkOklchBg == [l |-> Max(0, Min(1000, 1000 - oklchBg.l)),
                                c |-> Max(0, (oklchBg.c * 3) \div 10),
                                h |-> HueOrZero(oklchBg.h)]
            IN  [newBg |-> darkOklchBg,
                 finalBackgroundL |-> darkOklchBg.l,
                 backgroundLuminance |-> getRelativeLuminance(darkOklchBg)]
       ELSE [newBg |-> NoColor,
             finalBackgroundL |-> oklchBg.l,
             backgroundLuminance |-> getRelativeLuminance(oklchBg)]
  ELSE [newBg |-> NoColor,
        finalBackgroundL |-> 200,
        backgroundLuminance |-> getRelativeLuminance([l |-> 200, c |-> 0])]

\* "Process Background Color": the override (or none), the lightness the
\* text and icon decisions use, and the luminance the contrast check uses.
BackgroundDecision(isButton, originalBg) ==
  IF Parses(originalBg) /\ originalBg.a > 50
  THEN LET oklchBg == ToOklch(originalBg) IN
       IF oklchBg.l > 300
       THEN LET targetL0 == IF isButton THEN 350 ELSE 1000 - oklchBg.l
                targetC0 == IF isButton THEN (oklchBg.c * 1) \div 10
                                        ELSE (oklchBg.c * 3) \div 10
                targetL == Max(0, Min(1000, targetL0))
                targetC == Max(0, targetC0)
                darkOklchBg == [l |-> targetL, c |-> targetC, h |-> HueOrZero(oklchBg.h)]
            IN  [newBg |-> darkOklchBg,
                 finalBackgroundL |-> targetL,
                 backgroundLuminance |-> getRelativeLuminance(darkOklchBg)]
       ELSE [newBg |-> NoColor,
             finalBackgroundL |-> oklchBg.l,
             backgroundLuminance |-> getRelativeLuminance(oklchBg)]
  ELSE [newBg |-> NoColor,
        finalBackgroundL |-> 200,
        backgroundLuminance |-> getRelativeLuminance([l |-> 200, c |-> 0])]

\* A text step that skips the inversion and leaves the rest to the contrast
\* enforcer.
FullPassTextColorNoInversion(isButton, originalColor, bg) ==
  IF Parses(originalColor) /\ originalColor.a > 50
  THEN adjustTextLightnessForContrast(ToOklch(originalColor),
                                      bg.backgroundLuminance, TARGET_CONTRAST)
  ELSE NoColor

\* "Process Text Color with WCAG contrast enforcement" (full-document pass):
\* the OKLCH colour that is formatted, or no colour.
FullPassTextColor(isButton, originalColor, bg) ==
  IF Parses(originalColor) /\ originalColor.a > 50
  THEN LET initialOklchText == ToOklch(originalColor)
           newL == Max(0, Min(1000, 1000 - initialOklchText.l))
           newC == Max(0, (initialOklchText.c * (IF isButton THEN 5 ELSE 3)) \div 10)
           transformedTextColor == [l |-> newL, c |-> newC,
                                    h |-> HueOrZero(initialOklchText.h)]
           currentContrast ==
             calculateContrastRatio(getRelativeLuminance(transformedTextColor),
                                    bg.backgroundLuminance)
       IN  IF currentContrast < TARGET_CONTRAST
           THEN adjustTextLightnessForContrast(transformedTextColor,
                                               bg.backgroundLuminance, TARGET_CONTRAST)
           ELSE transformedTextColor
  ELSE NoColor

\* A text step that sets the lightness to the floor or ceiling itself.
IncrementalTextColorAtLimit(isButton, originalColor, bg) ==
  IF Parses(originalColor) /\ originalColor.a > 50
  THEN [l |-> IF bg.finalBackgroundL < 500 THEN 750 ELSE 250, c |-> 0, h |-> 0]
  ELSE NoColor

\* "Process Text Color with contrast awareness" (incremental pass).
IncrementalTextColor(isButton, originalColor, bg) ==
  IF Parses(originalColor) /\ originalColor.a > 50
  THEN LET oklchColor == ToOklch(originalColor)
           newL0 == Max(0, Min(1000, 1000 - oklchColor.l))
           newC == Max(0, (oklchColor.c * (IF isButton THEN 5 ELSE 3)) \div 10)
           contrastTarget == IF bg.finalBackgroundL < 500 THEN 750 ELSE 250
           newL == IF bg.finalBackgroundL < 500 THEN Max(newL0, contrastTarget)
                                                ELSE Min(newL0, contrastTarget)
       IN  [l |-> newL, c |-> newC, h |-> HueOrZero(oklchColor.h)]
  ELSE NoColor

\* A paint step that inverts the lightness and leaves it there.
SvgPaintUnclamped(isButton, original, bg, tenthsButton, tenthsOther) ==
  IF Parses(original) /\ original.a > 10
  THEN LET oklchPaint == ToOklch(original)
       IN  [l |-> Max(0, Min(1000, 1000 - oklchPaint.l)),
            c |-> Max(0, (oklchPaint.c * (IF isButton THEN tenthsButton ELSE tenthsOther)) \div 10),
            h |-> HueOrZero(oklchPaint.h)]
  ELSE NoColor

\* "Process SVG Fill Color" / "Process SVG Stroke Color", the same in both
\* passes; tenthsButton and tenthsOther are the chroma factors.
SvgPaint(isButton, original, bg, tenthsButton, tenthsOther) ==
  IF Parses(original) /\ original.a > 10
  THEN LET oklchPaint == ToOklch(original)
           newL0 == Max(0, Min(1000, 1000 - oklchPaint.l))
           newC == Max(0, (oklchPaint.c * (IF isButton THEN tenthsButton ELSE tenthsOther)) \div 10)
           svgContrastTargetL == IF bg.finalBackgroundL < 500 THEN 700 ELSE 300
           newL == IF bg.finalBackgroundL < 500 THEN Max(newL0, svgContrastTargetL)
                                                ELSE Min(newL0, svgContrastTargetL)
       IN  [l |-> newL, c |-> newC, h |-> HueOrZero(oklchPaint.h)]
  ELSE NoColor


(***************************************************************************)
(* The document.  Element 0 is body; node 1 hangs below body and node 2    *)
(* below node 1 (the parent of node n is n \div 2).  A node is in the      *)
(* document when it and all its ancestors are linked.                      *)
(***************************************************************************)
Body == 0
Nodes == {1, 2}
Elems == {Body} \cup Nodes
Parent(n) == n \div 2

RECURSIVE Under(_, _, _)
\* n hangs (through linked nodes) below element top.
Under(lk, n, top) ==
  IF n = top THEN TRUE
  ELSE IF n = Body THEN FALSE
  ELSE lk[n] /\ Under(lk, Parent(n), top)

InDocument(lk, e) == Under(lk, e, Body)
Descendants(lk, top) == {n \in DOMAIN lk : n # top /\ Under(lk, n, top)}

\* elementSelector of both passes; li, span, ... behave as div and p do.
SelectorTags == {"body", "div", "p", "button", "svg"}
\* elementSelector.includes(nodeName.toLowerCase()): a substring test on the
\* selector text, which "a" passes (as in "nav") and "img" does not.
SelectorTextIncludes(tag) == tag \in SelectorTags \cup {"a"}
IsHTMLElement(tag) == tag # "svg"

NoStyle == [attr |-> "null", bg |-> NoOverride, color |-> NoOverride,
            fill |-> NoOverride, stroke |-> NoOverride]
\* WeakMap.get of an element that has no entry.
NoEntry == [attr |-> "undefined", bg |-> NoOverride, color |-> NoOverride,
            fill |-> NoOverride, stroke |-> NoOverride]
PageStyle(text) == [NoStyle EXCEPT !.attr = text]

\* window.getComputedStyle: an inline !important declaration wins over the
\* page's own CSS; otherwise the value is the one the page's CSS gives the
\* element itself (a value inherited from an overridden ancestor is not
\* modelled).
Computed(st, e) ==
  [bg |-> IF st[e].bg # NoOverride THEN Grey(st[e].bg, 100) ELSE page[e].bg,
   color |-> IF st[e].color # NoOverride THEN Grey(st[e].color, 100) ELSE page[e].color,
   fill |-> IF st[e].fill # NoOverride THEN Grey(st[e].fill, 100) ELSE page[e].fill,
   stroke |-> IF st[e].stroke # NoOverride THEN Grey(st[e].stroke, 100) ELSE page[e].stroke]

\* A write phase that gives up on the whole element when its background
\* does not parse.
FullPassDecideAllOrNothing(e, data) ==
  LET isButton == page[e].tag = "button"
      bg == BackgroundDecision(isButton, data.bg)
      ok == Parses(data.bg)
  IN  [newBg |-> bg.newBg,
       finalBackgroundL |-> bg.finalBackgroundL,
       newColor |-> IF ok THEN FullPassTextColor(isButton, data.color, bg) ELSE NoColor,
       newFill |-> IF ok THEN SvgPaint(isButton, data.fill, bg, 4, 3) ELSE NoColor,
       newStroke |-> IF ok THEN SvgPaint(isButton, data.stroke, bg, 3, 2) ELSE NoColor]

\* The write-phase decisions of the full-document pass for one record of
\* elementsToStyleData.
FullPassDecide(e, data) ==
  LET isButton == page[e].tag = "button"
      bg == BackgroundDecision(isButton, data.bg)
  IN  [newBg |-> bg.newBg,
       finalBackgroundL |-> bg.finalBackgroundL,
       newColor |-> FullPassTextColor(isButton, data.color, bg),
       newFill |-> SvgPaint(isButton, data.fill, bg, 4, 3),
       newStroke |-> SvgPaint(isButton, data.stroke, bg, 3, 2)]

\* The same for one record of elementsData in applyStylesToElementAndChildren.
IncrementalDecide(e, data) ==
  LET isButton == page[e].tag = "button"
      bg == BackgroundDecision(isButton, data.bg)
  IN  [newBg |-> bg.newBg,
       finalBackgroundL |-> bg.finalBackgroundL,
       newColor |-> IncrementalTextColor(isButton, data.color, bg),
       newFill |-> SvgPaint(isButton, data.fill, bg, 4, 3),
       newStroke |-> SvgPaint(isButton, data.stroke, bg, 3, 2)]

\* isSmallElement of both passes.
IsSmallElement(e) ==
  IsHTMLElement(page[e].tag)
    /\ (page[e].h < SmallThreshold \/ page[e].w < SmallThreshold)

\* The record of the write phase for one element, kept for inspection: the
\* pass, the effective background lightness, and the lightness decided for
\* each property (-1 when none was decided).
NoRecord == [pass |-> "none", finalBackgroundL |-> -1, bgL |-> -1,
             textL |-> -1, fillL |-> -1, strokeL |-> -1]

\* A rewriter that snapshots only the elements that carry the marker.
SnapshotOnlyMarked(snap, isMarked, e, current) ==
  IF isMarked THEN [snap EXCEPT ![e] = current] ELSE snap

\* A rewriter that snapshots on every visit, marked or not.
SnapshotAlways(snap, isMarked, e, current) == [snap EXCEPT ![e] = current]

\* if (!data.element.hasAttribute('data-eyelove-styled')) elementOriginalStyles.set(...)
Snapshot(snap, isMarked, e, current) ==
  IF ~isMarked THEN [snap EXCEPT ![e] = current] ELSE snap

\* "Apply styles": the snapshot, the four setProperty calls and the marker,
\* for one element; dom is [style, marked, snap, records].
ApplyToElement(dom, e, d, pass) ==
  LET writeBg == d.newBg # NoColor /\ ~IsSmallElement(e)
      stylesApplied == writeBg \/ d.newColor # NoColor
                         \/ d.newFill # NoColor \/ d.newStroke # NoColor
      st == dom.style[e]
      st1 == [attr |-> st.attr,
              bg |-> IF writeBg THEN formatHex(d.newBg) ELSE st.bg,
              color |-> IF d.newColor # NoColor THEN formatHex(d.newColor) ELSE st.color,
              fill |-> IF d.newFill # NoColor THEN formatHex(d.newFill) ELSE st.fill,
              stroke |-> IF d.newStroke # NoColor THEN formatHex(d.newStroke) ELSE st.stroke]
  IN  [style |-> [dom.style EXCEPT ![e] = st1],
       marked |-> [dom.marked EXCEPT ![e] = @ \/ stylesApplied],
       snap |-> Snapshot(dom.snap, dom.marked[e], e, dom.style[e]),
       records |-> [dom.records EXCEPT ![e] =
                      [pass |-> pass,
                       finalBackgroundL |-> d.finalBackgroundL,
                       bgL |-> d.newBg.l, textL |-> d.newColor.l,
                       fillL |-> d.newFill.l, strokeL |-> d.newStroke.l]]]

\* A pass: every element of elems is read, then every record is written.
\* A write touches only its own element, so the order of the writes does not
\* show in the result.
RECURSIVE WritePhase(_, _, _, _)
WritePhase(dom, elems, reads, full) ==
  IF elems = {} THEN dom
  ELSE LET e == CHOOSE x \in elems : TRUE
           d == IF full THEN FullPassDecide(e, reads[e])
                        ELSE IncrementalDecide(e, reads[e])
       IN  WritePhase(ApplyToElement(dom, e, d, IF full THEN "full" ELSE "incremental"),
                      elems \ {e}, reads, full)

RewriterPass(dom, elems, full) ==
  WritePhase(dom, elems, [e \in elems |-> Computed(dom.style, e)], full)

\* The DOM calls of a pass, in the order the code makes them.  A call is a
\* read or a write of one aspect of one element.
Access(kind, what, e) == [kind |-> kind, what |-> what, el |-> e]

\* querySelectorAll returns its matches in document order (body, node 1,
\* node 2).
RECURSIVE DocumentOrder(_)
DocumentOrder(elems) ==
  IF elems = {} THEN <<>>
  ELSE LET first == CHOOSE x \in elems : \A y \in elems : x <= y
       IN  <<first>> \o DocumentOrder(elems \ {first})

\* The "Apply styles" section for one element: hasAttribute, getAttribute
\* when the marker is absent, offsetHeight/offsetWidth of an HTMLElement,
\* then the setProperty calls and the marker.
ElementAccesses(dom, e, d) ==
  LET writeBg == d.newBg # NoColor /\ ~IsSmallElement(e)
      stylesApplied == writeBg \/ d.newColor # NoColor
                         \/ d.newFill # NoColor \/ d.newStroke # NoColor
  IN  <<Access("read", "marker", e)>>
        \o (IF ~dom.marked[e] THEN <<Access("read", "style attribute", e)>> ELSE <<>>)
        \o (IF IsHTMLElement(page[e].tag) THEN <<Access("read", "size", e)>> ELSE <<>>)
        \o (IF writeBg THEN <<Access("write", "background-color", e)>> ELSE <<>>)
        \o (IF d.newColor # NoColor THEN <<Access("write", "color", e)>> ELSE <<>>)
        \o (IF d.newFill # NoColor THEN <<Access("write", "fill", e)>> ELSE <<>>)
        \o (IF d.newStroke # NoColor THEN <<Access("write", "stroke", e)>> ELSE <<>>)
        \o (IF stylesApplied THEN <<Access("write", "marker", e)>> ELSE <<>>)

RECURSIVE ReadPhaseAccesses(_)
ReadPhaseAccesses(order) ==
  IF order = <<>> THEN <<>>
  ELSE <<Access("read", "computed style", Head(order))>> \o ReadPhaseAccesses(Tail(order))

RECURSIVE WritePhaseAccesses(_, _, _, _)
WritePhaseAccesses(dom, order, reads, full) ==
  IF order = <<>> THEN <<>>
  ELSE LET e == Head(order)
           d == IF full THEN FullPassDecide(e, reads[e])
                        ELSE IncrementalDecide(e, reads[e])
       IN  ElementAccesses(dom, e, d) \o WritePhaseAccesses(dom, Tail(order), reads, full)

\* The calls of one pass over elems: the read loop, then the write loop.
PassAccesses(dom, elems, full) ==
  LET order == DocumentOrder(elems)
      reads == [e \in elems |-> Computed(dom.style, e)]
  IN  ReadPhaseAccesses(order) \o WritePhaseAccesses(dom, order, reads, full)

\* applyStylesToElementAndChildren(element): the element when the selector
\* text includes its tag name, and its descendants the selector matches.
elementsToProcess(lk, node) ==
  (IF SelectorTextIncludes(page[node].tag) THEN {node} ELSE {})
    \cup {n \in Descendants(lk, node) : page[n].tag \in SelectorTags}

applyStylesToElementAndChildren(dom, lk, node) ==
  RewriterPass(dom, elementsToProcess(lk, node), FALSE)

\* The MutationObserver callback over the queued records, in order.
RECURSIVE ProcessAdded(_, _, _)
ProcessAdded(dom, lk, nodes) ==
  IF nodes = <<>> THEN dom
  ELSE LET node == Head(nodes)
           dom1 == IF IsHTMLElement(page[node].tag)
                   THEN applyStylesToElementAndChildren(dom, lk, node)
                   ELSE dom
       IN  ProcessAdded(dom1, lk, Tail(nodes))

\* A restore that takes the fallback branch (removeAttribute) every time.
RestoreElementDropsStyle(dom, e) ==
  [style |-> [dom.style EXCEPT ![e] = NoStyle],
   marked |-> [dom.marked EXCEPT ![e] = FALSE],
   snap |-> [dom.snap EXCEPT ![e] = NoEntry],
   records |-> [dom.records EXCEPT ![e] = NoRecord]]

\* A restore that leaves an element it has no snapshot of as it finds it.
RestoreElementSkipsUnknown(dom, e) ==
  LET originalStyle == dom.snap[e] IN
  IF originalStyle = NoEntry THEN dom
  ELSE [style |-> [dom.style EXCEPT ![e] = originalStyle],
        marked |-> [dom.marked EXCEPT ![e] = FALSE],
        snap |-> [dom.snap EXCEPT ![e] = NoEntry],
        records |-> [dom.records EXCEPT ![e] = NoRecord]]

\* The restore loop of removeDarkModeStyles for one marked element.
RestoreElement(dom, e) ==
  LET originalStyle == dom.snap[e] IN
  [style |-> [dom.style EXCEPT ![e] =
                IF originalStyle # NoEntry THEN originalStyle ELSE NoStyle],
   marked |-> [dom.marked EXCEPT ![e] = FALSE],
   snap |-> [dom.snap EXCEPT ![e] = NoEntry],
   records |-> [dom.records EXCEPT ![e] = NoRecord]]

RECURSIVE RestoreAll(_, _)
RestoreAll(dom, elems) ==
  IF elems = {} THEN dom
  ELSE LET e == CHOOSE x \in elems : TRUE
       IN  RestoreAll(RestoreElement(dom, e), elems \ {e})

\* Strategy 1: one declaration per catalog variable whose value parses.
Catalog == <<"--bg-color", "--text-color">>

RECURSIVE GenerateFrom(_, _)
GenerateFrom(values, i) ==
  IF i > Len(Catalog) THEN <<>>
  ELSE LET value == values[Catalog[i]]
           rest == GenerateFrom(values, i + 1)
       IN  IF value # CssEmpty /\ Parses(value)
           THEN LET originalOklch == ToOklch(value)
                    newL == Max(0, Min(1000, 1000 - originalOklch.l))
                    newC == Max(0, (originalOklch.c * 3) \div 10)
                    darkOklch == [l |-> newL, c |-> newC,
                                  h |-> HueOrZero(originalOklch.h)]
                IN  <<[name |-> Catalog[i],
                       color |-> darkOklch,
                       value |-> formatHex(darkOklch)]>> \o rest
           ELSE rest

\* A generator that emits the declarations last variable first.
overrideRulesReversed(values) ==
  LET rules == GenerateFrom(values, 1)
  IN  [i \in 1..Len(rules) |-> rules[Len(rules) + 1 - i]]

overrideRules(values) == GenerateFrom(values, 1)

(***************************************************************************)
(* Initial states: the page as the content script finds it at load.        *)
(***************************************************************************)
White == Grey(255, 100)
Black == Grey(0, 100)
MidGrey == Grey(128, 100)
DarkGrey == Grey(30, 100)
Transparent == Grey(0, 0)
Faint == Grey(0, 30)
HalfWhite == Grey(255, 50)

Sizes == {<<40, 40>>, <<23, 40>>, <<40, 23>>}
StyleTexts == {"null", "", "margin:0"}

Profile(tag, bg, color, fill, stroke, size, text, attr) ==
  [tag |-> tag, bg |-> bg, color |-> color, fill |-> fill, stroke |-> stroke,
   w |-> size[1], h |-> size[2], text |-> text, styleAttr |-> attr]

\* body itself has nothing the rewriter overrides.
BodyProfile ==
  Profile("body", Transparent, Transparent, CssNone, CssNone, <<40, 40>>, FALSE, "null")

\* The elements the lifecycle is exercised on: a light block with text under
\* each kind of style attribute, an element none of whose colours is eligible,
\* a vector graphic, and a link (which the selector does not list).
PlainDiv(attr) == Profile("div", White, Black, Black, CssNone, <<40, 40>>, TRUE, attr)
LifecycleProfiles ==
  {PlainDiv(attr) : attr \in StyleTexts}
    \cup {Profile("div", Transparent, Transparent, CssNone, CssNone, <<40, 40>>, TRUE, "margin:0"),
          Profile("svg", White, Black, Black, CssNone, <<40, 40>>, FALSE, "null"),
          Profile("a", White, Black, Black, CssNone, <<40, 40>>, TRUE, "null")}

\* One element of every kind, colour and size, to exercise the decisions of
\* the write phase.
RewriterProfiles ==
  {Profile(tag, bg, color, paint[1], paint[2], size, text, "null") :
     tag \in {"div", "button", "svg"},
     bg \in {White, MidGrey, DarkGrey, HalfWhite, Transparent, CssNone},
     color \in {Black, White, MidGrey, Transparent, CssNone},
     paint \in {<<Black, CssNone>>, <<Faint, White>>, <<CssNone, CssNone>>},
     size \in Sizes,
     text \in BOOLEAN}

\* Resolved values of the catalog variables on the root: a colour and a
\* value that does not parse.
RootValues ==
  [n \in {Catalog[i] : i \in 1..Len(Catalog)} |->
     IF n = "--bg-color" THEN White ELSE CssNone]

InitDom ==
  /\ linked = [n \in DOMAIN page \ {Body} |-> TRUE]
  /\ style = [e \in DOMAIN page |-> PageStyle(page[e].styleAttr)]
  /\ marked = [e \in DOMAIN page |-> FALSE]
  /\ elementOriginalStyles = [e \in DOMAIN page |-> NoEntry]
  /\ records = [e \in DOMAIN page |-> NoRecord]
  /\ bodyClass = FALSE
  /\ adoptedStyleSheets = <<"page">>
  /\ sheetRules = <<>>
  /\ dynamicStyleSheet \in BOOLEAN
  /\ domObserver = FALSE
  /\ observers = 0
  /\ pending = <<>>
  /\ cache = "unset"
  /\ last = [op |-> "load", active |-> FALSE, elems |-> {}, again |-> {}]

InitEngine ==
  /\ InitDom
  /\ rootVars = RootValues

Init ==
  /\ page \in {p \in [Elems -> LifecycleProfiles \cup {BodyProfile}] :
                 /\ p[Body] = BodyProfile
                 /\ \A n \in Nodes : p[n] \in LifecycleProfiles}
  /\ InitEngine

\* The page of the insertion scenario: a div (with the page's default
\* colours, or white) that contains a paragraph with a white background and
\* black text, 40px high, with the text "Hello".
ScenarioDivs ==
  {Profile("div", bg, Black, Black, CssNone, <<40, 40>>, TRUE, "null") :
     bg \in {Transparent, White}}
ScenarioParagraphs ==
  {Profile("p", White, Black, Black, CssNone, <<40, 40>>, TRUE, attr) :
     attr \in StyleTexts}

InitScenario ==
  /\ page \in {p \in [Elems -> ScenarioDivs \cup ScenarioParagraphs \cup {BodyProfile}] :
                 /\ p[Body] = BodyProfile
                 /\ p[1] \in ScenarioDivs
                 /\ p[2] \in ScenarioParagraphs}
  /\ InitEngine

InitRewriter ==
  /\ page \in {p \in [{Body, 1} -> RewriterProfiles \cup {BodyProfile}] :
                 /\ p[Body] = BodyProfile
                 /\ p[1] \in RewriterProfiles}
  /\ InitEngine

(***************************************************************************)
(* Operations.                                                             *)
(***************************************************************************)
Dom == [style |-> style, marked |-> marked, snap |-> elementOriginalStyles,
        records |-> records]

InDoc(e) == InDocument(linked, e)

\* document.querySelectorAll(elementSelector)
elementsToCheck == {e \in DOMAIN page : InDoc(e) /\ page[e].tag \in SelectorTags}

\* document.querySelectorAll('[data-eyelove-styled="inline"]')
inlineStyledElements == {e \in DOMAIN page : InDoc(e) /\ marked[e]}

\* What the last operation was, whether the observer handle was set when it
\* began, the elements it worked on and those of them that carried the
\* marker already.
Did(op, elems) ==
  [op |-> op, active |-> domObserver, elems |-> elems,
   again |-> {e \in elems : marked[e]}]

\* An activation that creates an observer without looking at the handle.
InstallObserverAlways(handle, n) == n + 1

\* if (!domObserver) { domObserver = new MutationObserver(...); observe(...) }
InstallObserver(handle, n) == IF ~handle THEN n + 1 ELSE n

\* An adoption that assigns a list holding the engine's sheet only.
AdoptSheetAlone(sheets) == <<"eyelove">>

\* if (!document.adoptedStyleSheets.includes(dynamicStyleSheet)) append it
AdoptSheet(sheets) ==
  IF \E i \in 1..Len(sheets) : sheets[i] = "eyelove" THEN sheets
  ELSE Append(sheets, "eyelove")

\* An observer that also watches attributes: a pass that writes to
\* elements queues a record for one of them.
ObservedWritesAttributes(queue, written) ==
  IF written = {} THEN queue ELSE Append(queue, CHOOSE e \in written : TRUE)

\* domObserver.observe(document.body, {childList: true, subtree: true,
\* attributes: false}): the queue after the engine wrote style attributes,
\* markers, the body class or the adopted sheets.  None of these is a
\* childList record.
ObservedWrites(queue, written) == queue

\* A deactivation that drops the handle without disconnecting the observer.
DisconnectKeeps(handle, n) == n

\* if (domObserver) { domObserver.disconnect(); domObserver = null; }: the
\* number of connected observers afterwards.
Disconnect(handle, n) == IF handle THEN n - 1 ELSE n

\* A deactivation that leaves the adopted list as it is.
DropSheetKeeps(sheets) == sheets

\* document.adoptedStyleSheets.filter((s) => s !== dynamicStyleSheet)
DropSheet(sheets) == SelectSeq(sheets, LAMBDA s : s # "eyelove")

Includes(seq, x) == \E i \in 1..Len(seq) : seq[i] = x

applyDarkModeStyles ==
  IF ~dynamicStyleSheet
  THEN /\ last' = Did("activate", {})
       /\ UNCHANGED <<page, linked, style, marked, elementOriginalStyles, records, bodyClass,
                      adoptedStyleSheets, sheetRules, dynamicStyleSheet,
                      domObserver, observers, pending, cache, rootVars>>
  ELSE LET dom1 == RewriterPass(Dom, elementsToCheck, TRUE) IN
       /\ bodyClass' = TRUE
       /\ style' = dom1.style
       /\ marked' = dom1.marked
       /\ elementOriginalStyles' = dom1.snap
       /\ records' = dom1.records
       /\ sheetRules' = overrideRules(rootVars)
       /\ adoptedStyleSheets' = AdoptSheet(adoptedStyleSheets)
       /\ cache' = "true"
       /\ domObserver' = TRUE
       /\ observers' = InstallObserver(domObserver, observers)
       /\ pending' = ObservedWrites(pending, elementsToCheck)
       /\ last' = Did("activate", elementsToCheck)
       /\ UNCHANGED <<page, linked, dynamicStyleSheet, rootVars>>

removeDarkModeStyles ==
  LET dom1 == RestoreAll(Dom, inlineStyledElements) IN
  /\ domObserver' = FALSE
  /\ observers' = Disconnect(domObserver, observers)
  /\ pending' = IF domObserver THEN <<>> ELSE pending
  /\ style' = dom1.style
  /\ marked' = dom1.marked
  /\ elementOriginalStyles' = dom1.snap
  /\ records' = dom1.records
  /\ bodyClass' = FALSE
  /\ adoptedStyleSheets' = IF dynamicStyleSheet /\ Includes(adoptedStyleSheets, "eyelove")
                           THEN DropSheet(adoptedStyleSheets)
                           ELSE adoptedStyleSheets
  /\ cache' = "false"
  /\ last' = Did("deactivate", inlineStyledElements)
  /\ UNCHANGED <<page, linked, sheetRules, dynamicStyleSheet, rootVars>>

\* The observer's callback, run with the records queued since the last run.
\* It may run any time after the insertion, which covers the browser's
\* schedule (a microtask after the inserting script).
ObserverCallback ==
  /\ observers > 0
  /\ pending # <<>>
  /\ LET dom1 == ProcessAdded(Dom, linked, pending) IN
       /\ style' = dom1.style
       /\ marked' = dom1.marked
       /\ elementOriginalStyles' = dom1.snap
       /\ records' = dom1.records
  /\ pending' = ObservedWrites(<<>>, {pending[i] : i \in 1..Len(pending)})
  /\ last' = Did("callback", {pending[i] : i \in 1..Len(pending)})
  /\ UNCHANGED <<page, linked, bodyClass, adoptedStyleSheets, sheetRules,
                 dynamicStyleSheet, domObserver, observers, cache, rootVars>>

\* The page's script attaches node n to its parent; an observer of body's
\* subtree gets a childList record when the parent is in the document.
PageInsert(n) ==
  /\ ~linked[n]
  /\ linked' = [linked EXCEPT ![n] = TRUE]
  /\ IF observers > 0 /\ InDoc(Parent(n))
     THEN /\ Len(pending) < MaxPending
          /\ pending' = Append(pending, n)
     ELSE pending' = pending
  /\ last' = Did("insert", {n})
  /\ UNCHANGED <<page, style, marked, elementOriginalStyles, records, bodyClass,
                 adoptedStyleSheets, sheetRules, dynamicStyleSheet, domObserver,
                 observers, cache, rootVars>>

\* The page's script detaches node n (its record has no added nodes, and the
\* callback skips it).
PageRemove(n) ==
  /\ linked[n]
  /\ linked' = [linked EXCEPT ![n] = FALSE]
  /\ last' = Did("remove", {n})
  /\ UNCHANGED <<page, style, marked, elementOriginalStyles, records, bodyClass,
                 adoptedStyleSheets, sheetRules, dynamicStyleSheet, domObserver,
                 observers, pending, cache, rootVars>>

Next ==
  \/ applyDarkModeStyles
  \/ removeDarkModeStyles
  \/ ObserverCallback
  \/ \E n \in DOMAIN linked : PageInsert(n)
  \/ \E n \in DOMAIN linked : PageRemove(n)

Spec == Init /\ [][Next]_vars

SpecRewriter == InitRewriter /\ [][Next]_vars

SpecScenario == InitScenario /\ [][Next]_vars

(***************************************************************************)
(* The contrast enforcer on its own: adjustTextLightnessForContrast is     *)
(* called with a candidate text colour, a background luminance and a       *)
(* target ratio, on a page with nothing but body.                          *)
(***************************************************************************)
CandidateLightness == {50 * k : k \in 0..20}
\* The candidates: every grey of those lightnesses, and a dark, a middle and
\* a light blue (chroma 0.12, hue 250).
Candidates ==
  {[l |-> l, c |-> 0, h |-> NoHue] : l \in CandidateLightness}
    \cup {[l |-> l, c |-> 120, h |-> 250] : l \in {0, 500, 1000}}
BackgroundLuminances == {0, 861, 2290, 4999, 5000, 6813, 10000}
Targets == {3000, TARGET_CONTRAST, 7000, 21000}

InitAdjust ==
  /\ page = [e \in {Body} |-> BodyProfile]
  /\ InitEngine
  /\ dynamicStyleSheet

\* One call; last keeps the arguments, the run of the loop and the colour
\* returned.
CallAdjust ==
  /\ \E textColorOklch \in Candidates, backgroundLuminance \in BackgroundLuminances,
        targetContrast \in Targets :
       last' = [op |-> "adjust",
                textColorOklch |-> textColorOklch,
                backgroundLuminance |-> backgroundLuminance,
                targetContrast |-> targetContrast,
                run |-> AdjustRun(textColorOklch, backgroundLuminance, targetContrast),
                returned |-> adjustTextLightnessForContrast(textColorOklch,
                               backgroundLuminance, targetContrast)]
  /\ UNCHANGED <<page, linked, style, marked, elementOriginalStyles, records, bodyClass,
                 adoptedStyleSheets, sheetRules, dynamicStyleSheet, domObserver,
                 observers, pending, cache, rootVars>>

SpecAdjust == InitAdjust /\ [][CallAdjust]_vars

(***************************************************************************)
(* The contrast ratio on its own: calls with every pair of luminances from *)
(* black to white; last keeps the arguments, the ratio and the ratio of    *)
(* the call with the arguments exchanged.                                  *)
(***************************************************************************)
Luminances == {1000 * k : k \in 0..10} \cup {1, 861, 2290, 9999}

CallContrast ==
  /\ \E luminance1 \in Luminances, luminance2 \in Luminances :
       last' = [op |-> "contrast",
                luminance1 |-> luminance1,
                luminance2 |-> luminance2,
                ratio |-> calculateContrastRatio(luminance1, luminance2),
                exchanged |-> calculateContrastRatio(luminance2, luminance1)]
  /\ UNCHANGED <<page, linked, style, marked, elementOriginalStyles, records, bodyClass,
                 adoptedStyleSheets, sheetRules, dynamicStyleSheet, domObserver,
                 observers, pending, cache, rootVars>>

SpecContrast == InitAdjust /\ [][CallContrast]_vars

(***************************************************************************)
(* The decisions of the write phase on their own, over computed values     *)
(* with chroma and hue: the record a read phase made for node 1 is the     *)
(* input, and last keeps it with the decisions of the pass chosen.         *)
(***************************************************************************)
DimGrey == Grey(70, 100)
LightBlue == Tint(200, 100, 120, 250)
Orange == Tint(128, 100, 200, 30)
Green == Tint(60, 100, 100, 140)
DecideBackgrounds == {White, DarkGrey, DimGrey, Transparent, LightBlue, Tint(200, 50, 120, 250)}
DecideTexts == {Black, Green}
DecideFills == {Black, Orange, Faint, CssNone}
DecideStrokes == {White, Green, CssNone}
DecideInputs ==
  {[bg |-> bg, color |-> color, fill |-> fill, stroke |-> stroke] :
     bg \in DecideBackgrounds, color \in DecideTexts,
     fill \in DecideFills, stroke \in DecideStrokes}

InitDecide ==
  /\ page \in {p \in [{Body, 1} -> RewriterProfiles \cup {BodyProfile}] :
                 /\ p[Body] = BodyProfile
                 /\ \E tag \in {"div", "button", "svg"} :
                      p[1] = Profile(tag, White, Black, CssNone, CssNone, <<40, 40>>, TRUE, "null")}
  /\ InitEngine
  /\ dynamicStyleSheet

\* The write-phase decisions of one pass for node 1 and one record; other
\* keeps what the other pass decides for the same record.
CallDecide ==
  /\ \E full \in BOOLEAN, data \in DecideInputs :
       last' = [op |-> "decide",
                full |-> full,
                isButton |-> page[1].tag = "button",
                data |-> data,
                d |-> IF full THEN FullPassDecide(1, data) ELSE IncrementalDecide(1, data),
                other |-> IF full THEN IncrementalDecide(1, data) ELSE FullPassDecide(1, data)]
  /\ UNCHANGED <<page, linked, style, marked, elementOriginalStyles, records, bodyClass,
                 adoptedStyleSheets, sheetRules, dynamicStyleSheet, domObserver,
                 observers, pending, cache, rootVars>>

SpecDecide == InitDecide /\ [][CallDecide]_vars

(***************************************************************************)
(* The variable overrides: a page of one block whose root resolves the     *)
(* catalog variables to any of a grey, two colours with chroma, a value    *)
(* that does not parse (a gradient, a keyword) and the empty string.       *)
(***************************************************************************)
RootInputs == {White, LightBlue, Orange, CssNone, CssEmpty}

InitVariables ==
  /\ page = [e \in {Body, 1} |-> IF e = Body THEN BodyProfile ELSE PlainDiv("null")]
  /\ InitDom
  /\ rootVars \in [{Catalog[i] : i \in 1..Len(Catalog)} -> RootInputs]

SpecVariables == InitVariables /\ [][Next]_vars

(***************************************************************************)
(* Exceptions.  A DOM call on element x raises during one operation: in    *)
(* the read phase (getComputedStyle), or in the write phase after the      *)
(* snapshot was stored (the size read before the first setProperty), or    *)
(* in the restore loop (setAttribute / removeAttribute of the style).      *)
(***************************************************************************)
FaultPoints == {"read", "write"}

\* A pass in which processing x raises at the given point.  Both loops
\* wrap each element in try/catch: x is left out of the write phase; a
\* raise in the write phase ("write") comes after x's snapshot was stored
\* and before its first setProperty; a raise at the end of the write step
\* ("mark") comes after the setProperty calls and before the marker is set.
RewriterPassRaise(dom, elems, full, x, point) ==
  LET reads == [e \in elems |-> Computed(dom.style, e)]
      dom1 == WritePhase(dom, elems \ {x}, reads, full)
      d == IF full THEN FullPassDecide(x, reads[x]) ELSE IncrementalDecide(x, reads[x])
      dom2 == ApplyToElement(dom1, x, d, IF full THEN "full" ELSE "incremental")
  IN  IF x \in elems /\ point = "write"
      THEN [dom1 EXCEPT !.snap = Snapshot(dom1.snap, dom1.marked[x], x, dom1.style[x])]
      ELSE IF x \in elems /\ point = "mark"
      THEN [dom2 EXCEPT !.marked = dom1.marked]
      ELSE dom1

RECURSIVE ProcessAddedRaise(_, _, _, _, _)
ProcessAddedRaise(dom, lk, nodes, x, point) ==
  IF nodes = <<>> THEN dom
  ELSE LET node == Head(nodes)
           dom1 == IF IsHTMLElement(page[node].tag)
                   THEN RewriterPassRaise(dom, elementsToProcess(lk, node), FALSE, x, point)
                   ELSE dom
       IN  ProcessAddedRaise(dom1, lk, Tail(nodes), x, point)

\* The restore loop when the style write of x raises: forEach has no
\* try/catch, so the elements before x (in document order) are restored and
\* the exception leaves the loop.
RestoreUntil(dom, elems, x) == RestoreAll(dom, {e \in elems : e < x})

applyDarkModeStylesRaise(x, point) ==
  /\ dynamicStyleSheet
  /\ x \in elementsToCheck
  /\ LET dom1 == RewriterPassRaise(Dom, elementsToCheck, TRUE, x, point) IN
       /\ style' = dom1.style
       /\ marked' = dom1.marked
       /\ elementOriginalStyles' = dom1.snap
       /\ records' = dom1.records
  /\ bodyClass' = TRUE
  /\ sheetRules' = overrideRules(rootVars)
  /\ adoptedStyleSheets' = AdoptSheet(adoptedStyleSheets)
  /\ cache' = "true"
  /\ domObserver' = TRUE
  /\ observers' = InstallObserver(domObserver, observers)
  /\ last' = Did("activate raised", {x})
  /\ UNCHANGED <<page, linked, dynamicStyleSheet, pending, rootVars>>

ObserverCallbackRaise(x, point) ==
  /\ observers > 0
  /\ pending # <<>>
  /\ \E i \in 1..Len(pending) :
       IsHTMLElement(page[pending[i]].tag) /\ x \in elementsToProcess(linked, pending[i])
  /\ LET dom1 == ProcessAddedRaise(Dom, linked, pending, x, point) IN
       /\ style' = dom1.style
       /\ marked' = dom1.marked
       /\ elementOriginalStyles' = dom1.snap
       /\ records' = dom1.records
  /\ pending' = <<>>
  /\ last' = Did("callback raised", {x})
  /\ UNCHANGED <<page, linked, bodyClass, adoptedStyleSheets, sheetRules,
                 dynamicStyleSheet, domObserver, observers, cache, rootVars>>

\* removeDarkModeStyles left by the exception: the observer is gone, the
\* class, the sheet and the cache are as they were.
removeDarkModeStylesRaise(x) ==
  /\ x \in inlineStyledElements
  /\ LET dom1 == RestoreUntil(Dom, inlineStyledElements, x) IN
       /\ style' = dom1.style
       /\ marked' = dom1.marked
       /\ elementOriginalStyles' = dom1.snap
       /\ records' = dom1.records
  /\ domObserver' = FALSE
  /\ observers' = Disconnect(domObserver, observers)
  /\ pending' = IF domObserver THEN <<>> ELSE pending
  /\ last' = Did("deactivate raised", {x})
  /\ UNCHANGED <<page, linked, bodyClass, adoptedStyleSheets, sheetRules,
                 dynamicStyleSheet, cache, rootVars>>

NextFaults ==
  \/ Next
  \/ \E x \in DOMAIN page, point \in FaultPoints : applyDarkModeStylesRaise(x, point)
  \/ \E x \in DOMAIN page, point \in FaultPoints : ObserverCallbackRaise(x, point)
  \/ \E x \in DOMAIN page : removeDarkModeStylesRaise(x)

\* One page for the exceptions: a white div holding a white paragraph
\* whose style attribute the page has set; the sheet is available.
InitFaults ==
  /\ page = [e \in Elems |->
              IF e = Body THEN BodyProfile
              ELSE IF e = 1 THEN PlainDiv("null")
              ELSE Profile("p", White, Black, Black, CssNone, <<40, 40>>, TRUE, "margin:0")]
  /\ InitEngine
  /\ dynamicStyleSheet

SpecFaults == InitFaults /\ [][NextFaults]_vars

(***************************************************************************)
(* An exception at the end of an element's write step, after its           *)
(* setProperty calls and before its marker is set, on a page of one block. *)
(***************************************************************************)
NextMarkFaults ==
  \/ Next
  \/ \E x \in DOMAIN page : applyDarkModeStylesRaise(x, "mark")
  \/ \E x \in DOMAIN page : ObserverCallbackRaise(x, "mark")

InitMarkFaults ==
  /\ page = [e \in {Body, 1} |-> IF e = Body THEN BodyProfile ELSE PlainDiv("margin:0")]
  /\ InitEngine
  /\ dynamicStyleSheet

SpecMarkFaults == InitMarkFaults /\ [][NextMarkFaults]_vars

(***************************************************************************)
(* An activation in which dynamicStyleSheet.replaceSync raises: the catch  *)
(* around the sheet update is entered before the sheet is adopted, and the *)
(* rest of the activation runs as usual.                                   *)
(***************************************************************************)
applyDarkModeStylesSheetFails ==
  /\ dynamicStyleSheet
  /\ LET dom1 == RewriterPass(Dom, elementsToCheck, TRUE) IN
       /\ style' = dom1.style
       /\ marked' = dom1.marked
       /\ elementOriginalStyles' = dom1.snap
       /\ records' = dom1.records
  /\ bodyClass' = TRUE
  /\ cache' = "true"
  /\ domObserver' = TRUE
  /\ observers' = InstallObserver(domObserver, observers)
  /\ pending' = ObservedWrites(pending, elementsToCheck)
  /\ last' = Did("activate", elementsToCheck)
  /\ UNCHANGED <<page, linked, adoptedStyleSheets, sheetRules, dynamicStyleSheet, rootVars>>

NextSheetFaults ==
  \/ Next
  \/ applyDarkModeStylesSheetFails

SpecSheetFaults == InitMarkFaults /\ [][NextSheetFaults]_vars

(***************************************************************************)
(* The runtime message listener.  A message is [action, payload]: payload  *)
(* is "none" when the message has no payload property, and otherwise the   *)
(* enabled member of the payload object: "true", "false", "undefined"      *)
(* (absent) or "yes" (a value that is not a boolean).  A delivered message *)
(* is kept in last until the listener has run; the page's scripts and the  *)
(* observer's callback run before or after the listener, never within it.  *)
(***************************************************************************)
OwnId == "eyelove"
Senders == {OwnId, "other"}
Messages ==
  {[action |-> action, payload |-> payload] :
     action \in {"updateBodyClass", "setEnabled", "getSettings", "bogus"},
     payload \in {"none", "true", "false", "undefined", "yes"}}

\* What parseMessage returns for a message the schema rejects.
NullMessage == [action |-> "null", payload |-> "none"]

\* parseMessage (MessageSchema.parse in a try/catch): the discriminated
\* union on action; unknown keys of an object are stripped.
parseMessage(message) ==
  IF message.action = "updateBodyClass"
  THEN IF message.payload \in {"true", "false", "undefined"} THEN message ELSE NullMessage
  ELSE IF message.action = "setEnabled"
  THEN IF message.payload \in {"true", "false"} THEN message ELSE NullMessage
  ELSE IF message.action = "getSettings"
  THEN [action |-> "getSettings", payload |-> "none"]
  ELSE NullMessage

\* A listener that takes messages from any sender.
FromAnyone(sender) == TRUE

\* The sender check: sender.id === chrome.runtime.id.
FromOwnExtension(sender) == sender = OwnId

Receive(sender, message) ==
  /\ last.op # "message"
  /\ last' = [op |-> "message", active |-> domObserver, elems |-> {}, again |-> {},
              sender |-> sender, message |-> message]
  /\ UNCHANGED <<page, linked, style, marked, elementOriginalStyles, records, bodyClass,
                 adoptedStyleSheets, sheetRules, dynamicStyleSheet, domObserver,
                 observers, pending, cache, rootVars>>

\* The listener returns false without calling the engine.
Ignore ==
  /\ last' = [last EXCEPT !.op = "ignored"]
  /\ UNCHANGED <<page, linked, style, marked, elementOriginalStyles, records, bodyClass,
                 adoptedStyleSheets, sheetRules, dynamicStyleSheet, domObserver,
                 observers, pending, cache, rootVars>>

Listener ==
  /\ last.op = "message"
  /\ IF ~FromOwnExtension(last.sender) THEN Ignore
     ELSE LET parsedMessage == parseMessage(last.message) IN
          IF parsedMessage = NullMessage THEN Ignore
          ELSE IF parsedMessage.action = "updateBodyClass" /\ parsedMessage.payload = "true"
          THEN applyDarkModeStyles
          ELSE IF parsedMessage.action = "updateBodyClass" /\ parsedMessage.payload = "false"
          THEN removeDarkModeStyles
          ELSE Ignore

NextMessages ==
  \/ \E sender \in Senders, message \in Messages : Receive(sender, message)
  \/ Listener
  \/ last.op # "message" /\ ObserverCallback
  \/ \E n \in DOMAIN linked : last.op # "message" /\ PageInsert(n)
  \/ \E n \in DOMAIN linked : last.op # "message" /\ PageRemove(n)

SpecMessages == InitMarkFaults /\ [][NextMessages]_vars

(***************************************************************************)
(* A page that writes the marker itself: its script sets the attribute     *)
(* data-eyelove-styled="inline" on an element that does not carry it (as   *)
(* cloning a rewritten element does for the clone).  The engine has no     *)
(* snapshot of such an element.                                            *)
(***************************************************************************)
PageMarks(e) ==
  /\ ~marked[e]
  /\ marked' = [marked EXCEPT ![e] = TRUE]
  /\ last' = Did("mark", {e})
  /\ UNCHANGED <<page, linked, style, elementOriginalStyles, records, bodyClass,
                 adoptedStyleSheets, sheetRules, dynamicStyleSheet, domObserver,
                 observers, pending, cache, rootVars>>

NextMarks ==
  \/ Next
  \/ \E e \in DOMAIN page : PageMarks(e)

SpecMarks == InitFaults /\ [][NextMarks]_vars

(***************************************************************************)
(* Properties.                                                             *)
(***************************************************************************)
Original(e) == PageStyle(page[e].styleAttr)
SheetEntries == Cardinality({i \in 1..Len(adoptedStyleSheets) : adoptedStyleSheets[i] = "eyelove"})

\* C1: after deactivate() every element in the document has exactly the
\* style attribute the page gave it (the same text, or none when it had
\* none, and no override left) and does not carry the styled marker.
C1_RoundTrip ==
  last.op = "deactivate" =>
    \A e \in DOMAIN page : InDoc(e) => style[e] = Original(e) /\ ~marked[e]

\* A deactivation of the active engine has just restored an element that had
\* a style text and one that had no style attribute.
C1_Witness ==
  /\ last.op = "deactivate" /\ last.active
  /\ \E e1, e2 \in last.elems :
       /\ page[e1].styleAttr = "margin:0" /\ style[e1] = PageStyle("margin:0")
       /\ page[e2].styleAttr = "null" /\ style[e2] = NoStyle

\* C2: activate() called directly after activate(), with the engine active,
\* changes nothing: inline styles, markers, body class, adopted sheets, sheet
\* content and snapshots are as the first call left them.
C2_ActivateTwiceSame ==
  [][(last.op = "activate" /\ domObserver /\ last'.op = "activate")
       => /\ style' = style
          /\ marked' = marked
          /\ bodyClass' = bodyClass
          /\ adoptedStyleSheets' = adoptedStyleSheets
          /\ sheetRules' = sheetRules
          /\ elementOriginalStyles' = elementOriginalStyles]_vars

\* C3: an element has a snapshot entry if and only if it carries the marker.
C3_SnapshotIffMarked ==
  \A e \in DOMAIN page : (elementOriginalStyles[e] # NoEntry) <=> marked[e]

\* C4: the snapshot of a marked element is the inline style the element had
\* before its first override, however often it has been processed since.
C4_NoResnapshot ==
  \A e \in DOMAIN page : marked[e] => elementOriginalStyles[e] = Original(e)

\* A watcher pass has just processed an element that carried the marker
\* already, and its snapshot is still the page's style text.
C4_Witness ==
  /\ last.op = "callback"
  /\ \E e \in last.again :
       /\ marked[e]
       /\ page[e].styleAttr = "margin:0"
       /\ style[e] # Original(e)
       /\ elementOriginalStyles[e] = PageStyle("margin:0")

\* C5: at most one mutation observer observes the document and the engine's
\* sheet occurs at most once in the adopted list.
C5_SingleWatcherSingleSheet == observers <= 1 /\ SheetEntries <= 1

\* activate() has just run with the engine active already: still one
\* observer and one entry.
C5_Witness ==
  /\ last.op = "activate" /\ last.active
  /\ observers = 1 /\ SheetEntries = 1

\* C6: after deactivate() of the active engine the observer is disconnected
\* and its handle null, every element that carried the marker in the
\* document is restored, no element in the document carries the marker, body
\* has lost the class and the engine's sheet is not adopted.
C6_DeactivatePost ==
  (last.op = "deactivate" /\ last.active) =>
    /\ ~domObserver /\ observers = 0 /\ pending = <<>>
    /\ \A e \in last.elems :
         style[e] = Original(e) /\ elementOriginalStyles[e] = NoEntry
    /\ \A e \in DOMAIN page : InDoc(e) => ~marked[e]
    /\ ~bodyClass
    /\ SheetEntries = 0

\* The active engine has just been deactivated and had marked elements to
\* restore.
C6_Witness ==
  /\ last.op = "deactivate" /\ last.active
  /\ last.elems # {}
  /\ adoptedStyleSheets = <<"page">>

\* C7: deactivate() with the engine inactive changes neither the body class,
\* the adopted sheets, any inline style or marker, the snapshots nor the
\* observer handle.
C7_RedundantDeactivateSame ==
  [][(~domObserver /\ last'.op = "deactivate")
       => /\ bodyClass' = bodyClass
          /\ adoptedStyleSheets' = adoptedStyleSheets
          /\ style' = style
          /\ marked' = marked
          /\ elementOriginalStyles' = elementOriginalStyles
          /\ domObserver' = domObserver]_vars

\* C8: whenever a write phase decided a text colour, its lightness is at
\* least 0.75 over an effective background darker than 0.5 and at most 0.25
\* over any other.
C8_ContrastFloor ==
  \A e \in DOMAIN page :
    records[e].textL >= 0 =>
      /\ records[e].finalBackgroundL < 500 => records[e].textL >= 750
      /\ records[e].finalBackgroundL >= 500 => records[e].textL <= 250

\* C9: an element narrower or lower than 24px never carries a background
\* override.
C9_SmallNoBackground ==
  \A e \in DOMAIN page :
    (page[e].w < SmallThreshold \/ page[e].h < SmallThreshold)
      => style[e].bg = NoOverride

\* C10: an element without direct text content never carries a background
\* override.
C10_NoTextNoBackground ==
  \A e \in DOMAIN page : ~page[e].text => style[e].bg = NoOverride

\* The elements one Rewriter pass is about to process, in a step that is an
\* activation with the sheet available or a watcher callback with a single
\* record (so that each element is read once, in the state before the step).
Processed ==
  IF last'.op = "activate" /\ dynamicStyleSheet THEN elementsToCheck
  ELSE IF last'.op = "callback" /\ Len(pending) = 1
            /\ IsHTMLElement(page[pending[1]].tag)
       THEN elementsToProcess(linked, pending[1])
       ELSE {}

\* C11: in either pass, a non-button element whose computed background is
\* opaque (alpha > 0.5) and light (L > 0.3) gets the background target
\* lightness 1 - L clamped to [0, 1]; an element whose background does not
\* parse, has alpha <= 0.5 or has L <= 0.3 gets no background target.
C11_InversionLaw ==
  [][\A e \in Processed :
       LET originalBg == Computed(style, e).bg
           light == Parses(originalBg) /\ originalBg.a > 50
                      /\ ToOklch(originalBg).l > 300
       IN  /\ (light /\ page[e].tag # "button")
                => records'[e].bgL = Max(0, Min(1000, 1000 - ToOklch(originalBg).l))
           /\ ~light => records'[e].bgL = NoOverride]_vars

\* A pass has just given an untouched mid-grey block (L = 0.6) the
\* target 0.4.
C11_Witness ==
  /\ last.op \in {"activate", "callback"}
  /\ \E e \in DOMAIN page :
       /\ records[e].pass # "none" /\ e \notin last.again
       /\ page[e].tag = "div" /\ page[e].bg = MidGrey
       /\ records[e].bgL = 400

\* What the full-document pass of an activation leaves on the elements of
\* the page when all of them are in the document and untouched.
AtActivation ==
  RewriterPass([style |-> [e \in DOMAIN page |-> Original(e)],
                marked |-> [e \in DOMAIN page |-> FALSE],
                snap |-> [e \in DOMAIN page |-> NoEntry],
                records |-> [e \in DOMAIN page |-> NoRecord]],
               {e \in DOMAIN page : page[e].tag \in SelectorTags}, TRUE)

IsHello(e) ==
  /\ page[e].tag \in {"div", "p"} /\ page[e].text
  /\ page[e].h = 40 /\ page[e].w = 40
  /\ page[e].bg = White /\ page[e].color = Black

\* C13: activate() gives an untouched "Hello" element a background override
\* of lightness 0 (#000000) and a text override of lightness >= 0.75, and
\* after deactivate() the element's style attribute is again what the page
\* gave it, with neither override left.
C13_HelloScenario ==
  \A e \in Nodes :
    IsHello(e) =>
      /\ (last.op = "activate" /\ dynamicStyleSheet /\ e \in last.elems \ last.again)
           => /\ records[e].bgL = 0 /\ style[e].bg = formatHex([l |-> 0, c |-> 0])
              /\ records[e].textL >= 750
              /\ style[e].color = formatHex([l |-> records[e].textL, c |-> 0])
              /\ style[e].attr = page[e].styleAttr
      /\ (last.op = "deactivate" /\ InDoc(e))
           => /\ style[e].bg = NoOverride /\ style[e].color = NoOverride
              /\ style[e] = Original(e)

\* activate() has just processed the untouched paragraph, whose style
\* attribute the page had set: black background, white text.
C13_Witness ==
  /\ last.op = "activate" /\ 2 \in last.elems \ last.again
  /\ IsHello(2) /\ page[2].styleAttr = "margin:0"
  /\ style[2].bg = 0 /\ style[2].color = 255 /\ marked[2]

\* C14: when the constructable sheet could not be created, activate()
\* returns normally, adopts no sheet and generates no variable rules, and
\* still rewrites the elements: every selected element in the document whose
\* text colour is opaque carries a text override and the marker afterwards.
C14_DegradedStillRewrites ==
  (last.op = "activate" /\ ~dynamicStyleSheet) =>
    /\ SheetEntries = 0 /\ sheetRules = <<>>
    /\ \A e \in DOMAIN page :
         (InDoc(e) /\ page[e].tag \in SelectorTags
            /\ Parses(page[e].color) /\ page[e].color.a > 50)
           => style[e].color # NoOverride /\ marked[e]

\* The elements other than x are, after the step, as dom has them.
OthersAsIn(dom, x) ==
  \A e \in DOMAIN page \ {x} :
    /\ style'[e] = dom.style[e]
    /\ marked'[e] = dom.marked[e]
    /\ elementOriginalStyles'[e] = dom.snap[e]

\* C15: when processing element x raises an exception during a pass, every
\* other element ends the pass exactly as it would have without the
\* exception, in the full-document pass, in the watcher's incremental passes
\* and in the restore pass.
C15_ErrorIsolation ==
  [][\A x \in DOMAIN page :
       /\ (last'.op = "activate raised" /\ last'.elems = {x})
            => OthersAsIn(RewriterPass(Dom, elementsToCheck, TRUE), x)
       /\ (last'.op = "callback raised" /\ last'.elems = {x})
            => OthersAsIn(ProcessAdded(Dom, linked, pending), x)
       /\ (last'.op = "deactivate raised" /\ last'.elems = {x})
            => OthersAsIn(RestoreAll(Dom, inlineStyledElements), x)]_vars

\* C16: in either pass, a colour of an element that does not parse gets no
\* override for its property and leaves that inline declaration alone, and
\* each of the other three properties is still decided and written whenever
\* its own colour is eligible, whatever the other colours are.
C16_ParseFailureLocal ==
  [][\A e \in Processed :
       LET data == Computed(style, e) IN
       /\ ~Parses(data.bg)
            => records'[e].bgL = NoOverride /\ style'[e].bg = style[e].bg
       /\ ~Parses(data.color)
            => records'[e].textL = NoOverride /\ style'[e].color = style[e].color
       /\ ~Parses(data.fill)
            => records'[e].fillL = NoOverride /\ style'[e].fill = style[e].fill
       /\ ~Parses(data.stroke)
            => records'[e].strokeL = NoOverride /\ style'[e].stroke = style[e].stroke
       /\ (Parses(data.bg) /\ data.bg.a > 50 /\ ToOklch(data.bg).l > 300)
            => /\ records'[e].bgL # NoOverride
               /\ ~IsSmallElement(e) => style'[e].bg = formatHex([l |-> records'[e].bgL, c |-> 0])
       /\ (Parses(data.color) /\ data.color.a > 50)
            => /\ records'[e].textL # NoOverride
               /\ style'[e].color = formatHex([l |-> records'[e].textL, c |-> 0])
       /\ (Parses(data.fill) /\ data.fill.a > 10)
            => /\ records'[e].fillL # NoOverride
               /\ style'[e].fill = formatHex([l |-> records'[e].fillL, c |-> 0])
       /\ (Parses(data.stroke) /\ data.stroke.a > 10)
            => /\ records'[e].strokeL # NoOverride
               /\ style'[e].stroke = formatHex([l |-> records'[e].strokeL, c |-> 0])]_vars

\* The full-document pass has just processed an untouched element whose
\* background and fill do not parse: no background and no fill override, and
\* a text and a stroke override all the same.
C16_Witness ==
  /\ last.op = "activate"
  /\ \E e \in last.elems \ last.again :
       /\ page[e].bg = CssNone /\ page[e].fill = Faint /\ page[e].color = Black
       /\ records[e].pass = "full"
       /\ style[e].bg = NoOverride /\ style[e].color = 255
       /\ style[e].fill # NoOverride /\ style[e].stroke # NoOverride
       /\ marked[e]

\* The adopted sheets that are not the engine's, in their order.
OtherSheets(sheets) == SelectSeq(sheets, LAMBDA sheet : sheet # "eyelove")

\* The elements an engine operation is about to select: the selector's
\* matches for an activation with the sheet available, the marked elements
\* for a deactivation, the inserted subtrees for a watcher callback.
Touched ==
  IF last'.op = "activate" THEN (IF dynamicStyleSheet THEN elementsToCheck ELSE {})
  ELSE IF last'.op = "deactivate" THEN inlineStyledElements
  ELSE IF last'.op = "callback"
       THEN UNION {elementsToProcess(linked, pending[i]) :
                     i \in {j \in 1..Len(pending) : IsHTMLElement(page[pending[j]].tag)}}
       ELSE {}

C18_CacheFollowsCalls ==
  /\ last.op = "activate" => cache = "true"
  /\ last.op = "deactivate" => cache = "false"

\* No read comes after a write in the sequence of calls.
ReadsBeforeWrites(calls) ==
  \A i, j \in 1..Len(calls) :
    (calls[i].kind = "write" /\ calls[j].kind = "read") => j < i

\* C19: in the pass of an activation, and in the pass of a watcher callback
\* with one record, every read of an element's computed style, size, style
\* attribute or marker comes before the first write to any element.
C19_ReadsBeforeWrites ==
  [][/\ (last'.op = "activate" /\ dynamicStyleSheet)
          => ReadsBeforeWrites(PassAccesses(Dom, elementsToCheck, TRUE))
     /\ (last'.op = "callback" /\ Len(pending) = 1
            /\ IsHTMLElement(page[pending[1]].tag))
          => ReadsBeforeWrites(PassAccesses(Dom, elementsToProcess(linked, pending[1]),
                                            FALSE))]_vars

ContrastOf(l, backgroundLuminance) ==
  calculateContrastRatio(backgroundLuminance, getRelativeLuminance([l |-> l, c |-> 0]))

\* C21: the colour the contrast enforcer returns has a contrast ratio
\* against the given background that is at least that of the candidate and
\* of every colour the loop tried, whether or not the target was met.
C21_ReturnsBest ==
  last.op = "adjust" =>
    \A i \in 1..Len(last.run.tried) :
      ContrastOf(last.returned.l, last.backgroundLuminance)
        >= ContrastOf(last.run.tried[i].l, last.backgroundLuminance)

\* C22: the loop changes the lightness by at most 0.05 in each of its
\* first 5 iterations and by at most 0.025 in each later one (the clamp to
\* [0, 1] can only shorten a step), so the returned lightness is within
\* 0.375 of the candidate's.
C22_StepSchedule ==
  last.op = "adjust" =>
    LET tried == last.run.tried
        Change(i) == IF tried[i + 1].l >= tried[i].l
                     THEN tried[i + 1].l - tried[i].l
                     ELSE tried[i].l - tried[i + 1].l
    IN  /\ \A i \in 1..(Len(tried) - 1) :
             Change(i) <= (IF i <= 5 THEN 50 ELSE 25)
        /\ last.returned.l - last.textColorOklch.l <= 375
        /\ last.textColorOklch.l - last.returned.l <= 375

\* C23: a call of the contrast enforcer returns a lightness that is not
\* below the candidate's when the background luminance is under 0.5 and not
\* above it otherwise, always within [0, 1], with the candidate's chroma and
\* hue, and changes nothing of the document or the engine.
C23_DirectionAndPurity ==
  [][last'.op = "adjust"
       => /\ last'.backgroundLuminance < 5000
               => last'.returned.l >= last'.textColorOklch.l
          /\ last'.backgroundLuminance >= 5000
               => last'.returned.l <= last'.textColorOklch.l
          /\ last'.returned.l \in 0..1000
          /\ last'.returned.c = last'.textColorOklch.c
          /\ last'.returned.h = last'.textColorOklch.h
          /\ UNCHANGED <<page, linked, style, marked, elementOriginalStyles, records,
                         bodyClass, adoptedStyleSheets, sheetRules, dynamicStyleSheet,
                         domObserver, observers, pending, cache, rootVars>>]_vars

\* A call has just lightened the middle blue over a dark background and
\* returned it with its chroma and hue.
C23_Witness ==
  /\ last.op = "adjust"
  /\ last.textColorOklch = [l |-> 500, c |-> 120, h |-> 250]
  /\ last.backgroundLuminance = 2290
  /\ last.returned.l > 500 /\ last.returned.c = 120 /\ last.returned.h = 250

\* C24: whenever a pass writes no background override to an element it
\* processes (no background target was decided, or the target is held back
\* because the element is small), the effective background lightness it
\* uses for the element's text and icon targets is the default 0.2.
C24_DefaultEstimate ==
  [][\A e \in Processed :
       (records'[e].bgL = NoOverride \/ IsSmallElement(e))
         => records'[e].finalBackgroundL = 200]_vars

\* C25: in either pass a button whose background is opaque (alpha > 0.5)
\* and lighter than 0.3 gets the background target of lightness 0.35 and a
\* tenth of the original chroma, whatever the original lightness, and 0.35
\* is the effective background lightness: being below 0.5, it puts the
\* button's icon targets at 0.70 or above and, in the incremental pass, its
\* text target at 0.75 or above.
C25_ButtonTarget ==
  (/\ last.op = "decide" /\ last.isButton
   /\ Parses(last.data.bg) /\ last.data.bg.a > 50 /\ ToOklch(last.data.bg).l > 300)
    => /\ last.d.newBg.l = 350
       /\ last.d.newBg.c * 10 = ToOklch(last.data.bg).c
       /\ last.d.finalBackgroundL = 350
       /\ last.d.newFill # NoColor => last.d.newFill.l >= 700
       /\ last.d.newStroke # NoColor => last.d.newStroke.l >= 700
       /\ (~last.full /\ last.d.newColor # NoColor) => last.d.newColor.l >= 750

\* The decisions for a light-blue button (L = 0.82, chroma 0.12) with a
\* black icon: background target 0.35 with chroma 0.012, icon lifted to
\* white.
C25_Witness ==
  /\ last.op = "decide" /\ last.isButton
  /\ last.data.bg = LightBlue /\ last.data.fill = Black
  /\ last.d.newBg = [l |-> 350, c |-> 12, h |-> 250]
  /\ last.d.newFill.l = 1000

\* The chroma a paint keeps: the original times tenths / 10.
PaintChroma(original, tenths) == (ToOklch(original).c * tenths) \div 10

\* C26: every fill or stroke target decided by either pass has lightness
\* at least 0.70 when the effective background lightness is below 0.5 and
\* at most 0.30 otherwise; its chroma is the original times 0.4 (button) or
\* 0.3 (other) for a fill and 0.3 (button) or 0.2 (other) for a stroke.
C26_PaintClamp ==
  last.op = "decide" =>
    LET d == last.d
        Clamped(paint) == IF d.finalBackgroundL < 500 THEN paint.l >= 700
                                                     ELSE paint.l <= 300
    IN  /\ d.newFill # NoColor
             => /\ Clamped(d.newFill)
                /\ d.newFill.c = PaintChroma(last.data.fill, IF last.isButton THEN 4 ELSE 3)
        /\ d.newStroke # NoColor
             => /\ Clamped(d.newStroke)
                /\ d.newStroke.c = PaintChroma(last.data.stroke, IF last.isButton THEN 3 ELSE 2)

\* An orange fill (L = 0.6, chroma 0.2) and a green stroke on a dim grey
\* block whose background target is 0.59: both are held at 0.30 or below,
\* with chroma 0.06 and 0.02.
C26_Witness ==
  /\ last.op = "decide" /\ ~last.isButton
  /\ last.data.bg = DimGrey /\ last.data.fill = Orange /\ last.data.stroke = Green
  /\ last.d.finalBackgroundL >= 500
  /\ last.d.newFill.l <= 300 /\ last.d.newFill.c = 60
  /\ last.d.newStroke.l <= 300 /\ last.d.newStroke.c = 20

\* The catalog variables that get a declaration: those whose resolved root
\* value is not empty and parses.
Declared == SelectSeq(Catalog, LAMBDA n : rootVars[n] # CssEmpty /\ Parses(rootVars[n]))

\* C27: an activation that has its sheet generates, in catalog order,
\* exactly one declaration for each catalog variable whose resolved root
\* value is non-empty and parses, and none for any other name; the declared
\* colour has lightness 1 - L clamped to [0, 1], chroma 0.3 x C and the
\* original hue (0 when the source has none).
C27_VariableOverrides ==
  [][(last'.op = "activate" /\ dynamicStyleSheet)
       => /\ Len(sheetRules') = Len(Declared)
          /\ \A i \in 1..Len(Declared) :
               LET rule == sheetRules'[i]
                   source == ToOklch(rootVars[Declared[i]])
               IN  /\ rule.name = Declared[i]
                   /\ rule.color.l = Max(0, Min(1000, 1000 - source.l))
                   /\ rule.color.c * 10 = source.c * 3
                   /\ rule.color.h = (IF source.c = 0 THEN 0 ELSE source.h)
                   /\ rule.value = formatHex(rule.color)]_vars

\* The sheet holds the two declarations of a root with a light-blue
\* background variable and a white text variable, in catalog order.
C27_Witness ==
  /\ rootVars["--bg-color"] = LightBlue /\ rootVars["--text-color"] = White
  /\ Len(sheetRules) = 2
  /\ sheetRules[1].name = "--bg-color" /\ sheetRules[1].color.c = 36
  /\ sheetRules[1].color.h = 250
  /\ sheetRules[2].name = "--text-color" /\ sheetRules[2].color = [l |-> 0, c |-> 0, h |-> 0]

\* C28: for luminances L1 and L2 in [0, 1] the contrast ratio is
\* (max(L1, L2) + 0.05) / (min(L1, L2) + 0.05) (here to the thousandth
\* below), is the same with the arguments exchanged, and lies in [1, 21].
C28_ContrastRatio ==
  last.op = "contrast" =>
    LET lighter == IF last.luminance1 >= last.luminance2 THEN last.luminance1
                                                       ELSE last.luminance2
        darker == IF last.luminance1 >= last.luminance2 THEN last.luminance2
                                                      ELSE last.luminance1
    IN  /\ last.ratio * (darker + 500) <= (lighter + 500) * 1000
        /\ (lighter + 500) * 1000 < (last.ratio + 1) * (darker + 500)
        /\ last.ratio = last.exchanged
        /\ last.ratio >= 1000 /\ last.ratio <= 21000

\* Black against white, darker argument first: the ratio is 21.
C28_Witness ==
  /\ last.op = "contrast"
  /\ last.luminance1 = 0 /\ last.luminance2 = 10000
  /\ last.ratio = 21000

\* C29: when a deactivation meets a marked element it has no snapshot of,
\* it removes the element's style attribute and its marker, raises nothing
\* and goes on: every marked element of the document loses its marker, those
\* with a snapshot get it back, and the class and the cache are reset.
C29_RestoreFallback ==
  [][last'.op = "deactivate"
       => \A e \in inlineStyledElements :
            elementOriginalStyles[e] = NoEntry
              => /\ style'[e] = NoStyle
                 /\ ~marked'[e]
                 /\ \A o \in inlineStyledElements :
                      /\ ~marked'[o]
                      /\ elementOriginalStyles[o] # NoEntry
                           => style'[o] = elementOriginalStyles[o]
                 /\ ~bodyClass' /\ cache' = "false"]_vars

\* A deactivation has taken the style attribute the page gave the paragraph
\* (which a snapshot would have brought back) together with the marker the
\* page put on it, and has restored the block above it from its snapshot.
C29_Witness ==
  /\ last.op = "deactivate" /\ last.elems = {1, 2}
  /\ page[2].styleAttr = "margin:0" /\ style[2] = NoStyle
  /\ style[1] = PageStyle(page[1].styleAttr)
  /\ ~marked[1] /\ ~marked[2]

\* C30: after any sequence of activations, deactivations and watcher
\* passes on a page that never writes the marker, every marked element has
\* a snapshot entry, so no deactivation reaches the restore fallback.
C30_MarkedImpliesSnapshotted ==
  \A e \in DOMAIN page : marked[e] => elementOriginalStyles[e] # NoEntry

\* A watcher pass has just marked an inserted element and holds its
\* snapshot.
C30_Witness ==
  /\ last.op = "callback"
  /\ \E e \in last.elems :
       /\ marked[e] /\ e \notin last.again
       /\ elementOriginalStyles[e] = PageStyle(page[e].styleAttr)

\* e carries an inline override of one of the four properties.
Overridden(e) ==
  \/ style[e].bg # NoOverride \/ style[e].color # NoOverride
  \/ style[e].fill # NoOverride \/ style[e].stroke # NoOverride

\* C31: between passes, every element that carries an inline override the
\* engine wrote also carries the marker, also when an exception has
\* interrupted the write step of that element.
C31_OverriddenImpliesMarked ==
  \A e \in DOMAIN page : Overridden(e) => marked[e]

\* C32: whenever the engine is inactive (no watcher, no activation class),
\* no element attached to the document carries the marker or an inline
\* override, also when the page detached the element while the engine was
\* active and attached it again after the deactivation.
C32_InactiveMeansClean ==
  (~domObserver /\ ~bodyClass)
    => \A e \in DOMAIN page : InDoc(e) => (~marked[e] /\ ~Overridden(e))

\* C33: for the same element and the same computed colours, the
\* incremental pass decides the same overrides, with the same lightness
\* and chroma, as the full-document pass.
C33_PassesAgree ==
  last.op = "decide" =>
    /\ last.d.newBg = last.other.newBg
    /\ last.d.newColor = last.other.newColor
    /\ last.d.newFill = last.other.newFill
    /\ last.d.newStroke = last.other.newStroke

\* C34: when the watcher handles one inserted subtree, it processes every
\* element of the subtree whose tag is in the selector's list, and no
\* element whose tag is outside it.
C34_SameSelection ==
  [][(last'.op = "callback" /\ Len(pending) = 1)
       => \A e \in {pending[1]} \cup Descendants(linked, pending[1]) :
            /\ page[e].tag \in SelectorTags => records'[e].pass = "incremental"
            /\ page[e].tag \notin SelectorTags => records'[e] = records[e]]_vars

\* C35: for every element a pass processes whose own computed background
\* is opaque, the effective background lightness the write phase uses is
\* the lightness of the background the element has after the write phase:
\* that of the override when one is written, the original one otherwise
\* (also when the override is held back because the element is small).
C35_EffectiveIsActual ==
  [][\A e \in Processed :
       LET originalBg == Computed(style, e).bg
           written == records'[e].bgL # NoOverride /\ ~IsSmallElement(e)
       IN  (Parses(originalBg) /\ originalBg.a = 100)
             => records'[e].finalBackgroundL =
                  (IF written THEN records'[e].bgL ELSE ToOklch(originalBg).l)]_vars

\* C36: whenever a pass computes a background override for an element,
\* button or not, the target lightness is at most the lightness of the
\* element's original background.
C36_NeverLightens ==
  (last.op = "decide" /\ last.d.newBg # NoColor)
    => last.d.newBg.l <= ToOklch(last.data.bg).l

\* C37: while no watcher is installed (from the return of a deactivation
\* to the next activation), nothing the page does restyles, snapshots or
\* marks an element, and no mutation record is queued or processed: the
\* records queued before the disconnection are dropped with it.
C37_NoStylingAfterDeactivation ==
  [][(~domObserver /\ last'.op \notin {"activate", "deactivate"})
       => /\ pending' = <<>>
          /\ UNCHANGED <<style, marked, elementOriginalStyles>>]_vars

\* The page has inserted a node after a deactivation: nothing is queued and
\* the node is untouched.
C37_Witness ==
  /\ last.op = "insert" /\ ~last.active
  /\ cache = "false" /\ ~domObserver /\ observers = 0
  /\ pending = <<>>
  /\ \E n \in last.elems : InDoc(n) /\ ~marked[n] /\ ~Overridden(n)

\* C38: the engine's own writes queue no mutation record: an activation
\* or a deactivation adds nothing to the queue, and a watcher pass leaves
\* the queue empty, so no further pass is due until the page inserts a node.
C38_NoSelfTriggering ==
  [][/\ last'.op \in {"activate", "deactivate"}
          => (pending' = pending \/ pending' = <<>>)
     /\ last'.op = "callback" => pending' = <<>>]_vars

\* A watcher pass has overridden and marked an inserted element, and the
\* queue is empty.
C38_Witness ==
  /\ last.op = "callback"
  /\ pending = <<>>
  /\ \E e \in last.elems : marked[e] /\ Overridden(e) /\ e \notin last.again

\* C39: after every completed activate() or deactivate() call a watcher is
\* installed exactly when body carries the activation class, and exactly
\* when the engine's sheet is in the adopted list, also when the update of
\* the sheet fails or the sheet could not be created.
C39_IndicatorsAgree ==
  last.op \in {"activate", "deactivate"}
    => /\ domObserver <=> bodyClass
       /\ bodyClass <=> Includes(adoptedStyleSheets, "eyelove")

\* C40: a delivered message whose sender is not the extension itself,
\* that the schema rejects, that has another action than updateBodyClass,
\* or whose payload has no boolean enabled value, calls neither activate()
\* nor deactivate(): the listener leaves the document and the engine as
\* they were.
C40_OnlyOwnEnableSignals ==
  [][(/\ last.op = "message"
      /\ \/ last.sender # OwnId
         \/ parseMessage(last.message) = NullMessage
         \/ last.message.action # "updateBodyClass"
         \/ last.message.payload \notin {"true", "false"})
       => /\ last'.op = "ignored"
          /\ UNCHANGED <<page, linked, style, marked, elementOriginalStyles, records,
                         bodyClass, adoptedStyleSheets, sheetRules, dynamicStyleSheet,
                         domObserver, observers, pending, cache, rootVars>>]_vars

\* While the engine is active with a marked element, the listener has
\* ignored a well-formed disable message that another sender delivered.
C40_Witness ==
  /\ last.op = "ignored"
  /\ last.sender = "other"
  /\ last.message = [action |-> "updateBodyClass", payload |-> "false"]
  /\ domObserver /\ bodyClass /\ marked[1]
====
